---------------------------- MODULE Spec2Model ----------------------------
(***************************************************************************)
(* Model of src/joke_notifier.py: the JokeNotifier main window (the UI     *)
(* thread's handlers), the background poll loop joke_notification_loop,    *)
(* the fetch-and-notify cycle fetch_and_show_joke, the Qt signal bridge    *)
(* that carries events from the poll threads to the UI thread, and the     *)
(* settings file.                                                          *)
(*                                                                         *)
(* The UI thread runs one handler at a time, so every handler is one       *)
(* action.  A poll thread is interleaved with the UI thread and with the   *)
(* other poll threads at every read of self.is_running / self.settings and *)
(* at every signal emission, so the loop is cut into one action per such   *)
(* step.  Wall-clock time is an input: whether the deadline of a countdown *)
(* has been reached is chosen by the environment at each check.            *)
(***************************************************************************)
EXTENDS Integers, Sequences, FiniteSets, TLC

VARIABLES
    self,             \* the JokeNotifier object's fields (UI-thread owned)
    threads,          \* the poll threads: slot -> [pc, url, joke_data, ...]
    events,           \* SignalBridge: queued signals not yet delivered to the UI
    settings_file,    \* joke_notifier_settings.json on disk
    tray_visible,     \* tray_icon.isVisible(): does the desktop show a tray
    NOTIFICATION_SYSTEM, \* the backend the import probing selected
    autostart_timer,  \* QTimer.singleShot(1000, start_notifications) pending
    shown,            \* outcome of the most recent show_notification call
    n_fetched,        \* number of successful fetches so far (the clock of timestamps)
    app               \* "running" | "exited"

vars == <<self, threads, events, settings_file, tray_visible, NOTIFICATION_SYSTEM,
          autostart_timer, shown, n_fetched, app>>

-----------------------------------------------------------------------------
(* Bounds of the model *)

\* poll thread slots: a thread that has returned frees its slot
MaxThreads == 2

\* queued signals the UI thread has not processed yet
MaxQueue == 1

\* successful fetches in one run
MaxFetches == 2

-----------------------------------------------------------------------------
(* Program constants *)

\* self.max_stored_jokes = 15
InitialMaxStoredJokes == 15

\* if len(notification_title) > 50
MaxTitleLen == 50

\* the settings dictionary built in __init__
DefaultSettings ==
    [frequency |-> 30,
     categories |-> <<"Any">>,
     safe_mode |-> TRUE,
     joke_type |-> "Any",
     language |-> "en",
     autostart |-> FALSE,
     notification_duration |-> 10,
     max_history |-> 15]

\* the import probing at module load: the first backend that imports
NotificationSystems == {"win10toast_click", "win10toast", "plyer", "notify2", "qt"}

-----------------------------------------------------------------------------
(* Dictionaries: a Python dict is a function on the set of its keys *)

EmptyDict == [k \in {} |-> 0]

\* dict.get(key, default)
Get(d, k, default) == IF k \in DOMAIN d THEN d[k] ELSE default

\* dict.update(other): other's keys override, the rest are kept
Update(d, other) ==
    [k \in DOMAIN d \cup DOMAIN other |-> IF k \in DOMAIN other THEN other[k] ELSE d[k]]

-----------------------------------------------------------------------------
(* json.dump and json.load of a settings dictionary.  A file is kept as the  *)
(* JSON text of each key's value; the text is parsed by its form alone.      *)

\* the keys of the settings by the Python type of their values
IntKeys == {"frequency", "notification_duration", "max_history"}
BoolKeys == {"safe_mode", "autostart"}
StrKeys == {"joke_type", "language"}
ListKeys == {"categories"}

\* the values a settings file of the modelled runs may hold
JsonInts == 0..30
JsonStrings == {"Any", "single", "twopart", "en", "de"}
JsonCategories == {"Any", "Misc", "Programming", "Pun"}
JsonLists ==
    {<<>>} \cup {<<a>> : a \in JsonCategories}
           \cup {<<a, b>> : a \in JsonCategories, b \in JsonCategories}

Digits == <<"0", "1", "2", "3", "4", "5", "6", "7", "8", "9">>

RECURSIVE IntToStr(_)
\* the decimal numeral of a natural number
IntToStr(n) ==
    IF n < 10 THEN Digits[n + 1]
    ELSE IntToStr(n \div 10) \o Digits[(n % 10) + 1]

\* a JSON string literal (the modelled strings need no escapes)
Quote(str) == "\"" \o str \o "\""

RECURSIVE JoinQuoted(_, _)
JoinQuoted(seq, sep) ==
    IF Len(seq) = 0 THEN ""
    ELSE IF Len(seq) = 1 THEN Quote(seq[1])
    ELSE Quote(seq[1]) \o sep \o JoinQuoted(Tail(seq), sep)

\* a list of strings as json.dump(..., indent=4) writes it inside an object
ListText(seq) ==
    IF Len(seq) = 0 THEN "[]"
    ELSE "[\n        " \o JoinQuoted(seq, ",\n        ") \o "\n    ]"

\* the JSON text of the value of key k
JsonText(k, v) ==
    IF k \in IntKeys THEN IntToStr(v)
    ELSE IF k \in BoolKeys THEN (IF v THEN "true" ELSE "false")
    ELSE IF k \in StrKeys THEN Quote(v)
    ELSE ListText(v)

\* the Python value of a JSON text
ParseJson(text) ==
    IF text = "true" THEN TRUE
    ELSE IF text = "false" THEN FALSE
    ELSE IF text \in {IntToStr(i) : i \in JsonInts}
         THEN CHOOSE i \in JsonInts : IntToStr(i) = text
    ELSE IF text \in {Quote(str) : str \in JsonStrings}
         THEN CHOOSE str \in JsonStrings : Quote(str) = text
    ELSE CHOOSE seq \in JsonLists : ListText(seq) = text

\* json.dump(d, f, indent=4): the object written
json_dump(d) == [k \in DOMAIN d |-> JsonText(k, d[k])]

\* json.load(f) of an object
json_load(data) == [k \in DOMAIN data |-> ParseJson(data[k])]

-----------------------------------------------------------------------------
(* Inputs of the model: the environment's choices, drawn from small sets *)

\* a settings file on disk: absent, not JSON, or the JSON object of d
NoFile == [exists |-> FALSE, parseable |-> FALSE, data |-> EmptyDict]
BadFile == [exists |-> TRUE, parseable |-> FALSE, data |-> EmptyDict]
JsonFile(d) == [exists |-> TRUE, parseable |-> TRUE, data |-> json_dump(d)]

\* the settings files the program may find at startup
StartFiles == {NoFile, JsonFile([max_history |-> 1, autostart |-> TRUE])}

\* the backends the import probing may select in the modelled runs
ProbedSystems == {"qt"}

\* does open(settings_path, "w") succeed
DiskWrites == {TRUE}

\* does the notification backend throw
BackendRaises == BOOLEAN

\* what the user changes in the settings dialog before saving it: the slider
\* is moved and the safe-mode box is unticked
DialogEdits == {[frequency_slider |-> 5, safe_mode_cb |-> FALSE]}

\* what requests.get(url).json() may give: an exception, or a JSON object
HttpException == [raised |-> TRUE, message |-> "Connection refused", json |-> EmptyDict]
JsonBody(d) == [raised |-> FALSE, message |-> "", json |-> d]

ApiError == JsonBody([error |-> TRUE, message |-> "No matching joke found"])
SingleJoke ==
    JsonBody([error |-> FALSE, type |-> "single", joke |-> "X",
              category |-> "Pun", id |-> "42"])
TwoPartJoke ==
    JsonBody([error |-> FALSE, type |-> "twopart", setup |-> "S", delivery |-> "D",
              category |-> "Misc", id |-> "7"])

Responses == {HttpException, ApiError, SingleJoke}

\* datetime.now().strftime("%I:%M %p") of the n-th successful fetch
ClockStr == <<"09:01 AM", "09:02 AM", "09:03 AM", "09:04 AM", "09:05 AM", "09:06 AM">>

\* the position of a timestamp on the clock
Ordinal(ts) == CHOOSE i \in 1..Len(ClockStr) : ClockStr[i] = ts

-----------------------------------------------------------------------------
(* The JokeNotifier object *)

Threads == 1..MaxThreads

\* the positions of joke_notification_loop between two cycles: from the return of
\* fetch_and_show_joke to the check that precedes the next call of it
WaitPcs == {"outer", "inner", "check", "countdown", "final"}

\* the positions inside fetch_and_show_joke
CyclePcs == {"request", "notify", "status"}

\* a slot with no live thread
\* stopped_waiting is history: the thread was counting down at the last stop
\* delivered is the value show_notification returned to the thread's cycle
NoThread == [pc |-> "none", url |-> "", joke_data |-> EmptyDict, timestamp |-> "",
             next_joke_time |-> 0, stopped_waiting |-> FALSE, delivered |-> FALSE]

\* threading.Thread(target=self.joke_notification_loop): about to run its first line
NewThread == [NoThread EXCEPT !.pc = "first"]

Alive(th) == {t \in DOMAIN th : th[t].pc # "none"}

FreeSlots(th) == {t \in DOMAIN th : th[t].pc = "none"}

\* self.joke_thread = threading.Thread(...); self.joke_thread.start()
\* The live threads fill the first slots, oldest first.
start_thread(th) == [th EXCEPT ![Cardinality(Alive(th)) + 1] = NewThread]

\* thread t returns from joke_notification_loop: the younger threads move down
thread_returns(th, t) ==
    [s \in DOMAIN th |->
        IF s < t THEN th[s]
        ELSE IF s + 1 \in DOMAIN th THEN th[s + 1]
        ELSE NoThread]

\* history: at a stop, the threads that are counting down are marked
mark_stopped(th) ==
    [t \in DOMAIN th |-> [th[t] EXCEPT !.stopped_waiting = th[t].pc \in WaitPcs]]

\* history: a start clears the marks
clear_stopped(th) ==
    [t \in DOMAIN th |-> [th[t] EXCEPT !.stopped_waiting = FALSE]]

\* start_notifications, the fields it sets
start_notifications(s) ==
    [s EXCEPT !.is_running = TRUE,
              !.status_label = "Running - Sending notifications",
              !.toggle_button = "Stop Notifications",
              !.status_indicator = "green",
              !.tray_toggle_action = "Stop Notifications"]

stop_notifications(s) ==
    [s EXCEPT !.is_running = FALSE,
              !.status_label = "Stopped",
              !.toggle_button = "Start Notifications",
              !.next_joke_label = "",
              !.status_indicator = "red",
              !.tray_toggle_action = "Start Notifications"]

\* slot update_status
update_status(s, message) == [s EXCEPT !.status_label = message]

\* slot update_next_joke_time
update_next_joke_time(s, message) == [s EXCEPT !.next_joke_label = message]

\* slot add_joke_to_list
add_joke_to_list(s, joke_data) ==
    LET inserted == <<joke_data>> \o s.last_jokes
    IN  [s EXCEPT !.last_jokes =
            IF Len(inserted) > s.max_stored_jokes
            THEN SubSeq(inserted, 1, s.max_stored_jokes)
            ELSE inserted]

\* load_settings that merges the wrong way round: the current values win
load_settings_defaults_win(s, file) ==
    IF ~file.exists THEN s
    ELSE IF ~file.parseable
         THEN [s EXCEPT !.status_label = "Error loading settings: Expecting value"]
         ELSE [s EXCEPT !.settings = Update(json_load(file.data), s.settings)]

\* is Python value v of key k true in a condition
Truthy(k, v) ==
    IF k \in IntKeys THEN v # 0
    ELSE IF k \in BoolKeys THEN v
    ELSE IF k \in StrKeys THEN v # ""
    ELSE v # <<>>

\* load_settings that takes over only the loaded values that are true
load_settings_truthy(s, file) ==
    IF ~file.exists THEN s
    ELSE IF ~file.parseable
         THEN [s EXCEPT !.status_label = "Error loading settings: Expecting value"]
         ELSE LET loaded == json_load(file.data)
                  kept == {k \in DOMAIN loaded : Truthy(k, loaded[k])}
              IN  [s EXCEPT !.settings = Update(s.settings, [k \in kept |-> loaded[k]])]

\* load_settings: merge the file's keys over the current settings
load_settings(s, file) ==
    IF ~file.exists THEN s
    ELSE IF ~file.parseable
         THEN [s EXCEPT !.status_label = "Error loading settings: Expecting value"]
         ELSE [s EXCEPT !.settings = Update(s.settings, json_load(file.data))]

\* save_settings_to_file: the file after the call
saved_file(s, file, io_ok) == IF io_ok THEN JsonFile(s.settings) ELSE file

\* save_settings_to_file: the object after the call
save_settings_to_file(s, io_ok) ==
    IF io_ok THEN s
    ELSE [s EXCEPT !.status_label = "Error saving settings: Permission denied"]

\* __init__ up to load_settings, then main()'s window.show()
NewJokeNotifier(file) ==
    load_settings(
        [is_running |-> FALSE,
         last_jokes |-> <<>>,
         max_stored_jokes |-> InitialMaxStoredJokes,
         settings |-> DefaultSettings,
         status_label |-> "Ready to start",
         next_joke_label |-> "",
         toggle_button |-> "Start Notifications",
         status_indicator |-> "red",
         tray_toggle_action |-> "Start Notifications",
         visible |-> TRUE],
        file)

-----------------------------------------------------------------------------
(* fetch_and_show_joke: the request and the normalisation of the response *)

RECURSIVE Join(_, _)
\* sep.join(seq)
Join(seq, sep) ==
    IF Len(seq) = 0 THEN ""
    ELSE IF Len(seq) = 1 THEN seq[1]
    ELSE seq[1] \o sep \o Join(Tail(seq), sep)

\* str.lower() on the joke types a settings file may hold
Lower(str) ==
    CASE str = "Single" -> "single"
      [] str = "Twopart" -> "twopart"
      [] str = "TwoPart" -> "twopart"
      [] OTHER -> str

\* base_url
BaseUrl == "https://v2.jokeapi.dev/joke/"

\* categories = ",".join(self.settings["categories"])
CategoryPath(settings) == Join(settings.categories, ",")

\* what follows the category segment
QueryString(settings) ==
    "?blacklistFlags=religious,racist,sexist,explicit"
        \o (IF settings.safe_mode THEN "&safe-mode" ELSE "")
        \o (IF settings.joke_type # "Any"
            THEN "&type=" \o Lower(settings.joke_type) ELSE "")
        \o (IF settings.language # "en" THEN "&lang=" \o settings.language ELSE "")

\* BuildUrl that spells the wildcard out as the list of all categories
BuildUrlAllCategories(settings) ==
    BaseUrl
        \o (IF settings.categories = <<"Any">>
            THEN "Misc,Programming,Dark,Pun,Spooky,Christmas"
            ELSE CategoryPath(settings))
        \o QueryString(settings)

\* BuildUrl that sends the blacklist only in safe mode
BuildUrlBlacklistInSafeMode(settings) ==
    BaseUrl \o CategoryPath(settings)
        \o (IF settings.safe_mode
            THEN "?blacklistFlags=religious,racist,sexist,explicit&safe-mode"
            ELSE "?")
        \o (IF settings.joke_type # "Any"
            THEN "&type=" \o Lower(settings.joke_type) ELSE "")
        \o (IF settings.language # "en" THEN "&lang=" \o settings.language ELSE "")

\* the URL of the request, from the settings read at the start of the cycle
BuildUrl(settings) == BaseUrl \o CategoryPath(settings) \o QueryString(settings)

\* the response is an exception, or its body lacks a key the code indexes
FetchRaises(resp) ==
    IF resp.raised THEN TRUE
    ELSE IF Get(resp.json, "error", FALSE) THEN FALSE
    ELSE IF "type" \notin DOMAIN resp.json THEN TRUE
    ELSE IF resp.json.type = "single" THEN "joke" \notin DOMAIN resp.json
    ELSE ~({"setup", "delivery"} \subseteq DOMAIN resp.json)

\* str(e) of that exception
ExceptionText(resp) ==
    IF resp.raised THEN resp.message
    ELSE IF "type" \notin DOMAIN resp.json THEN "'type'"
    ELSE IF resp.json.type = "single" THEN "'joke'"
    ELSE IF "setup" \notin DOMAIN resp.json THEN "'setup'"
    ELSE "'delivery'"

\* ErrorStatus that drops the API's message
ErrorStatusWithoutMessage(resp) ==
    IF FetchRaises(resp) THEN "Error: " \o ExceptionText(resp)
    ELSE "Error: Unknown error"

\* the status string of a cycle that ends in an error
ErrorStatus(resp) ==
    IF FetchRaises(resp) THEN "Error: " \o ExceptionText(resp)
    ELSE "Error: " \o Get(resp.json, "message", "Unknown error")

\* the cycle ends without a joke
FetchFails(resp) == IF FetchRaises(resp) THEN TRUE ELSE Get(resp.json, "error", FALSE)

joke_text(joke_data) ==
    IF joke_data.type = "single" THEN joke_data.joke
    ELSE joke_data.setup \o "\n\n" \o joke_data.delivery

\* notification_title with `>= 50` for `> 50`
notification_title_ge(joke_data) ==
    IF joke_data.type = "single" THEN "Joke Time!"
    ELSE IF Len(joke_data.setup) >= MaxTitleLen THEN "Joke Time!"
    ELSE joke_data.setup

notification_title(joke_data) ==
    IF joke_data.type = "single" THEN "Joke Time!"
    ELSE IF Len(joke_data.setup) > MaxTitleLen THEN "Joke Time!"
    ELSE joke_data.setup

notification_message(joke_data) ==
    IF joke_data.type = "twopart" THEN joke_data.delivery ELSE joke_text(joke_data)

\* joke_with_meta
JokeWithMeta(joke_data, timestamp) ==
    [text |-> joke_text(joke_data),
     category |-> Get(joke_data, "category", ""),
     time |-> timestamp,
     id |-> Get(joke_data, "id", "")]

-----------------------------------------------------------------------------
(* show_notification *)

NoNotification ==
    [returns |-> FALSE, backend |-> "none", dialog |-> FALSE, title |-> "",
     message |-> "", timeout |-> 0, status |-> ""]

\* What one call does: the backend that displayed the notification, whether
\* the fallback QMessageBox was scheduled, the status emitted on failure, and
\* the value returned.  raises: the selected backend throws.
show_notification(system, has_tray_icon, settings, title, message, raises) ==
    LET duration == Get(settings, "notification_duration", 10)
        base == [NoNotification EXCEPT !.title = title, !.message = message]
    IN  IF raises
        THEN [base EXCEPT !.dialog = TRUE,
                          !.status = "Notification error: backend failure"]
        ELSE IF system \in {"win10toast_click", "win10toast", "plyer"}
        THEN [base EXCEPT !.returns = TRUE, !.backend = system, !.timeout = duration]
        ELSE IF system = "notify2" \/ (system = "qt" /\ has_tray_icon)
        THEN [base EXCEPT !.returns = TRUE, !.backend = system,
                          !.timeout = duration * 1000]
        ELSE [base EXCEPT !.returns = TRUE, !.dialog = TRUE]

-----------------------------------------------------------------------------
(* SettingsDialog *)

SliderMin == 1
SliderMax == 120

AvailableCategories == <<"Misc", "Programming", "Dark", "Pun", "Spooky", "Christmas">>

Languages == <<"en", "de", "es", "fr", "it">>

Contains(seq, x) == \E i \in 1..Len(seq) : seq[i] = x

\* QSlider.setValue keeps the value inside the slider's range
Clamp(v) == IF v < SliderMin THEN SliderMin ELSE IF v > SliderMax THEN SliderMax ELSE v

\* SettingsDialog.__init__: the widgets as first shown, from the current settings
SettingsDialog(current_settings) ==
    [current_settings |-> current_settings,
     frequency_slider |-> Clamp(current_settings.frequency),
     category_mode_any |-> Contains(current_settings.categories, "Any"),
     category_checkboxes |->
        {AvailableCategories[i] : i \in
            {j \in 1..Len(AvailableCategories) :
                /\ Contains(current_settings.categories, AvailableCategories[j])
                /\ ~Contains(current_settings.categories, "Any")}},
     safe_mode_cb |-> current_settings.safe_mode,
     joke_type |-> IF current_settings.joke_type \in {"Any", "single", "twopart"}
                   THEN current_settings.joke_type ELSE "none",
     language |-> IF Contains(Languages, current_settings.language)
                  THEN current_settings.language ELSE "none",
     autostart_cb |-> Get(current_settings, "autostart", FALSE)]

IsChecked(dialog, cat) == cat \in dialog.category_checkboxes

\* SettingsDialog.get_settings
get_settings(dialog) ==
    LET selected == SelectSeq(AvailableCategories, LAMBDA c : IsChecked(dialog, c))
    IN  [dialog.current_settings EXCEPT
            !.frequency = dialog.frequency_slider,
            !.categories = IF dialog.category_mode_any THEN <<"Any">>
                           ELSE IF selected = <<>> THEN <<"Misc">> ELSE selected,
            !.safe_mode = dialog.safe_mode_cb,
            !.joke_type = IF dialog.joke_type = "Any" THEN "Any"
                          ELSE IF dialog.joke_type = "single" THEN "single"
                          ELSE "twopart",
            !.language = IF dialog.language = "none" THEN @ ELSE dialog.language,
            !.autostart = dialog.autostart_cb]

\* open_settings: does the dialog's result differ from the current settings
settings_changed(settings, new_settings) ==
    \/ settings.frequency # new_settings.frequency
    \/ settings.categories # new_settings.categories
    \/ settings.safe_mode # new_settings.safe_mode
    \/ settings.joke_type # new_settings.joke_type
    \/ settings.language # new_settings.language
    \/ Get(settings, "autostart", FALSE) # new_settings.autostart

-----------------------------------------------------------------------------
(* The state after construction *)

NoJoke == [text |-> "", category |-> "", time |-> "", id |-> ""]

\* a queued signal of the SignalBridge
Signal(sig, message, joke) == [sig |-> sig, message |-> message, joke |-> joke]

Init ==
    /\ settings_file \in StartFiles
    /\ tray_visible \in BOOLEAN
    /\ NOTIFICATION_SYSTEM \in ProbedSystems
    /\ self = NewJokeNotifier(settings_file)
    /\ threads = [t \in Threads |-> NoThread]
    /\ events = <<>>
    /\ autostart_timer = Get(self.settings, "autostart", FALSE)
    /\ shown = NoNotification
    /\ n_fetched = 0
    /\ app = "running"

-----------------------------------------------------------------------------
(* The UI thread's handlers *)

\* what no handler changes
Environment == UNCHANGED <<tray_visible, NOTIFICATION_SYSTEM>>

\* toggle_notifications
toggle_notifications ==
    IF self.is_running
    THEN /\ self' = stop_notifications(self)
         /\ threads' = mark_stopped(threads)
    ELSE /\ FreeSlots(threads) # {}
         /\ self' = start_notifications(self)
         /\ threads' = start_thread(clear_stopped(threads))

\* the Start/Stop button of the window
ToggleNotifications ==
    /\ app = "running"
    /\ self.visible
    /\ toggle_notifications
    /\ UNCHANGED <<events, settings_file, autostart_timer, shown, n_fetched, app>>
    /\ Environment

\* toggle_notifications_from_tray: the tray menu's Start/Stop entry
ToggleNotificationsFromTray ==
    /\ app = "running"
    /\ tray_visible
    /\ toggle_notifications
    /\ UNCHANGED <<events, settings_file, autostart_timer, shown, n_fetched, app>>
    /\ Environment

\* QTimer.singleShot(1000, self.start_notifications) fires
AutostartTimer ==
    /\ app = "running"
    /\ autostart_timer
    /\ FreeSlots(threads) # {}
    /\ self' = start_notifications(self)
    /\ threads' = start_thread(clear_stopped(threads))
    /\ autostart_timer' = FALSE
    /\ UNCHANGED <<events, settings_file, shown, n_fetched, app>>
    /\ Environment

\* restart_needed that ignores is_running's value before the save
RestartNever(s, new_settings) == FALSE

\* open_settings: was_running and settings_changed
restart_needed(s, new_settings) ==
    s.is_running /\ settings_changed(s.settings, new_settings)

\* open_settings with the dialog accepted, up to the restart
open_settings(s, new_settings) ==
    LET updated == [s EXCEPT !.settings = new_settings,
                             !.max_stored_jokes = Get(new_settings, "max_history", 15)]
    IN  IF restart_needed(s, new_settings)
        THEN start_notifications(stop_notifications(updated))
        ELSE updated

\* open_settings: the dialog is edited and accepted
OpenSettings ==
    /\ app = "running"
    /\ self.visible \/ tray_visible
    /\ \E edit \in DialogEdits, io_ok \in DiskWrites :
          LET dialog == [SettingsDialog(self.settings) EXCEPT
                            !.frequency_slider = edit.frequency_slider,
                            !.safe_mode_cb = edit.safe_mode_cb]
              new_settings == get_settings(dialog)
              restart == restart_needed(self, new_settings)
              opened == open_settings(self, new_settings)
          IN  /\ restart => FreeSlots(threads) # {}
              /\ threads' = IF restart THEN start_thread(clear_stopped(threads))
                            ELSE threads
              /\ settings_file' = saved_file(opened, settings_file, io_ok)
              /\ self' = [save_settings_to_file(opened, io_ok) EXCEPT
                            !.status_label = "Settings saved successfully"]
    /\ UNCHANGED <<events, autostart_timer, shown, n_fetched, app>>
    /\ Environment

\* closeEvent: hide to the tray, or stop, save and accept the close
closeEvent ==
    IF tray_visible
    THEN /\ self' = [self EXCEPT !.visible = FALSE]
         /\ UNCHANGED <<threads, settings_file, app>>
    ELSE /\ \E io_ok \in DiskWrites :
              LET stopped == IF self.is_running THEN stop_notifications(self) ELSE self
              IN  /\ self' = [save_settings_to_file(stopped, io_ok) EXCEPT
                                !.visible = FALSE]
                  /\ settings_file' = saved_file(stopped, settings_file, io_ok)
         /\ threads' = IF self.is_running THEN mark_stopped(threads) ELSE threads
         /\ app' = "exited"

\* the window's close button
CloseWindow ==
    /\ app = "running"
    /\ self.visible
    /\ closeEvent
    /\ UNCHANGED <<events, autostart_timer, shown, n_fetched>>
    /\ Environment

\* the tray menu's Exit entry: exit_action.triggered.connect(self.close)
TrayExit ==
    /\ app = "running"
    /\ tray_visible
    /\ closeEvent
    /\ UNCHANGED <<events, autostart_timer, shown, n_fetched>>
    /\ Environment

\* show_and_activate (tray menu), tray_icon_activated with the window hidden
ShowAndActivate ==
    /\ app = "running"
    /\ tray_visible
    /\ ~self.visible
    /\ self' = [self EXCEPT !.visible = TRUE]
    /\ UNCHANGED <<threads, events, settings_file, autostart_timer, shown,
                   n_fetched, app>>
    /\ Environment

\* The UI thread's event loop delivers the oldest queued signal to its slot
DeliverSignal(sig) ==
    /\ app = "running"
    /\ events # <<>>
    /\ Head(events).sig = sig
    /\ events' = Tail(events)
    /\ self' = CASE sig = "update_status" -> update_status(self, Head(events).message)
                 [] sig = "update_next_joke_time" ->
                        update_next_joke_time(self, Head(events).message)
                 [] sig = "add_joke" -> add_joke_to_list(self, Head(events).joke)
    /\ UNCHANGED <<threads, settings_file, autostart_timer, shown, n_fetched, app>>
    /\ Environment

DeliverUpdateStatus == DeliverSignal("update_status")

DeliverUpdateNextJokeTime == DeliverSignal("update_next_joke_time")

DeliverAddJoke == DeliverSignal("add_joke")

-----------------------------------------------------------------------------
(* A poll thread: joke_notification_loop and fetch_and_show_joke *)

\* what a thread step leaves alone
ThreadFrame ==
    UNCHANGED <<self, settings_file, tray_visible, NOTIFICATION_SYSTEM,
                autostart_timer, app>>

\* signal.emit(...) from a poll thread: queued for the UI thread
Emit(sig, message, joke) ==
    /\ Len(events) < MaxQueue
    /\ events' = Append(events, Signal(sig, message, joke))

\* f"Next joke in: {mins}m {secs}s": the remaining time is the clock's, an input
CountdownText == "Next joke in: {mins}m {secs}s"

\* fetch_and_show_joke is entered (first joke, or deadline reached): the URL is
\* built from the settings and the request is sent
FetchBegin(t) ==
    /\ app = "running"
    /\ threads[t].pc \in {"first", "fetch"}
    /\ threads' = [threads EXCEPT ![t].pc = "request",
                                  ![t].url = BuildUrl(self.settings)]
    /\ UNCHANGED <<events, shown, n_fetched>>
    /\ ThreadFrame

\* FetchError without the except clause: the exception ends the thread
FetchErrorFatal(t) ==
    /\ app = "running"
    /\ threads[t].pc = "request"
    /\ \E resp \in Responses :
          /\ FetchFails(resp)
          /\ IF FetchRaises(resp)
             THEN events' = events
             ELSE Emit("update_status", ErrorStatus(resp), NoJoke)
          /\ threads' = IF FetchRaises(resp)
                        THEN thread_returns(threads, t)
                        ELSE [threads EXCEPT ![t].pc = "outer", ![t].url = ""]
    /\ UNCHANGED <<shown, n_fetched>>
    /\ ThreadFrame

\* the response is an exception or an API error: a status, and the cycle ends
FetchError(t) ==
    /\ app = "running"
    /\ threads[t].pc = "request"
    /\ \E resp \in Responses :
          /\ FetchFails(resp)
          /\ Emit("update_status", ErrorStatus(resp), NoJoke)
    /\ threads' = [threads EXCEPT ![t].pc = "outer", ![t].url = ""]
    /\ UNCHANGED <<shown, n_fetched>>
    /\ ThreadFrame

\* the response is a joke: the record is emitted to the UI
FetchJoke(t) ==
    /\ app = "running"
    /\ threads[t].pc = "request"
    /\ n_fetched < MaxFetches
    /\ \E resp \in Responses :
          /\ ~FetchFails(resp)
          /\ Emit("add_joke", "", JokeWithMeta(resp.json, ClockStr[n_fetched + 1]))
          /\ threads' = [threads EXCEPT ![t].pc = "notify", ![t].url = "",
                                        ![t].joke_data = resp.json,
                                        ![t].timestamp = ClockStr[n_fetched + 1]]
    /\ n_fetched' = n_fetched + 1
    /\ UNCHANGED shown
    /\ ThreadFrame

\* self.show_notification(notification_title, notification_message)
ShowNotification(t) ==
    /\ app = "running"
    /\ threads[t].pc = "notify"
    /\ \E raises \in BackendRaises :
          LET done == show_notification(NOTIFICATION_SYSTEM, TRUE, self.settings,
                          notification_title(threads[t].joke_data),
                          notification_message(threads[t].joke_data), raises)
          IN  /\ shown' = done
              /\ IF done.status # ""
                 THEN Emit("update_status", done.status, NoJoke)
                 ELSE events' = events
              /\ threads' = [threads EXCEPT ![t].pc = "status",
                                            ![t].delivered = done.returns]
    /\ UNCHANGED n_fetched
    /\ ThreadFrame

\* update_status.emit("Last joke sent successfully at ...")
EmitSuccess(t) ==
    /\ app = "running"
    /\ threads[t].pc = "status"
    /\ Emit("update_status",
            "Last joke sent successfully at " \o threads[t].timestamp, NoJoke)
    /\ threads' = [threads EXCEPT ![t].pc = "outer", ![t].joke_data = EmptyDict,
                                  ![t].timestamp = "", ![t].delivered = FALSE]
    /\ UNCHANGED <<shown, n_fetched>>
    /\ ThreadFrame

\* LoopOuter as `while True:`: the loop never tests is_running at its head
LoopOuterForever(t) ==
    /\ app = "running"
    /\ threads[t].pc = "outer"
    /\ threads' = [threads EXCEPT ![t].pc = "inner",
                                  ![t].next_joke_time = self.settings.frequency]
    /\ UNCHANGED <<events, shown, n_fetched>>
    /\ ThreadFrame

\* while self.is_running:  (false: the thread returns)
\*     next_joke_time = time.time() + self.settings["frequency"] * 60
\* The deadline is kept as the frequency it was computed from.
LoopOuter(t) ==
    /\ app = "running"
    /\ threads[t].pc = "outer"
    /\ threads' = IF self.is_running
                  THEN [threads EXCEPT ![t].pc = "inner",
                                       ![t].next_joke_time = self.settings.frequency]
                  ELSE thread_returns(threads, t)
    /\ UNCHANGED <<events, shown, n_fetched>>
    /\ ThreadFrame

\* while time.time() < next_joke_time and self.is_running:
LoopInner(t) ==
    /\ app = "running"
    /\ threads[t].pc = "inner"
    /\ \E time_left \in BOOLEAN :
          threads' = [threads EXCEPT ![t].pc =
                        IF time_left /\ self.is_running THEN "check" ELSE "final"]
    /\ UNCHANGED <<events, shown, n_fetched>>
    /\ ThreadFrame

\* if not self.is_running: return
LoopCheck(t) ==
    /\ app = "running"
    /\ threads[t].pc = "check"
    /\ threads' = IF self.is_running
                  THEN [threads EXCEPT ![t].pc = "countdown"]
                  ELSE thread_returns(threads, t)
    /\ UNCHANGED <<events, shown, n_fetched>>
    /\ ThreadFrame

\* update_next_joke_time.emit(f"Next joke in: {mins}m {secs}s"); time.sleep(1)
LoopCountdown(t) ==
    /\ app = "running"
    /\ threads[t].pc = "countdown"
    /\ Emit("update_next_joke_time", CountdownText, NoJoke)
    /\ threads' = [threads EXCEPT ![t].pc = "inner"]
    /\ UNCHANGED <<shown, n_fetched>>
    /\ ThreadFrame

\* LoopFinal without its test of is_running: the deadline alone starts the cycle
LoopFinalUnchecked(t) ==
    /\ app = "running"
    /\ threads[t].pc = "final"
    /\ threads' = [threads EXCEPT ![t].pc = "fetch", ![t].next_joke_time = 0]
    /\ UNCHANGED <<events, shown, n_fetched>>
    /\ ThreadFrame

\* if self.is_running: self.fetch_and_show_joke()
LoopFinal(t) ==
    /\ app = "running"
    /\ threads[t].pc = "final"
    /\ threads' = [threads EXCEPT ![t].pc = IF self.is_running THEN "fetch" ELSE "outer",
                                  ![t].next_joke_time = 0]
    /\ UNCHANGED <<events, shown, n_fetched>>
    /\ ThreadFrame

-----------------------------------------------------------------------------
(* The specification *)

Next ==
    \/ ToggleNotifications
    \/ ToggleNotificationsFromTray
    \/ AutostartTimer
    \/ OpenSettings
    \/ CloseWindow
    \/ TrayExit
    \/ ShowAndActivate
    \/ DeliverUpdateStatus
    \/ DeliverUpdateNextJokeTime
    \/ DeliverAddJoke
    \/ \E t \in Threads :
          \/ FetchBegin(t)
          \/ FetchError(t)
          \/ FetchJoke(t)
          \/ ShowNotification(t)
          \/ EmitSuccess(t)
          \/ LoopOuter(t)
          \/ LoopInner(t)
          \/ LoopCheck(t)
          \/ LoopCountdown(t)
          \/ LoopFinal(t)

Spec == Init /\ [][Next]_vars

\* one step of poll thread t
ThreadStep(t) ==
    \/ FetchBegin(t)
    \/ FetchError(t)
    \/ FetchJoke(t)
    \/ ShowNotification(t)
    \/ EmitSuccess(t)
    \/ LoopOuter(t)
    \/ LoopInner(t)
    \/ LoopCheck(t)
    \/ LoopCountdown(t)
    \/ LoopFinal(t)

\* time.time() < next_joke_time is false: the clock has reached the deadline
DeadlineReached(t) == LoopInner(t) /\ threads'[t].pc = "final"

\* The scheduling the liveness claims rest on: the operating system keeps
\* running every poll thread (an emit never blocks a thread for good: the
\* signal queue of Qt is not bounded), the clock reaches every deadline, and
\* the UI thread's event loop keeps delivering the queued signals.
Fairness ==
    /\ \A t \in Threads : SF_vars(ThreadStep(t)) /\ SF_vars(DeadlineReached(t))
    /\ WF_vars(DeliverUpdateStatus \/ DeliverUpdateNextJokeTime \/ DeliverAddJoke)

\* The runs the liveness claims are checked on: a desktop without a system
\* tray and without a settings file, where the user works in the window
LiveInit == Init /\ settings_file = NoFile /\ ~tray_visible

LiveNext ==
    \/ ToggleNotifications
    \/ OpenSettings
    \/ CloseWindow
    \/ DeliverUpdateStatus
    \/ DeliverUpdateNextJokeTime
    \/ DeliverAddJoke
    \/ \E t \in Threads : ThreadStep(t)

FairSpec == LiveInit /\ [][LiveNext]_vars /\ Fairness

-----------------------------------------------------------------------------
(* The functions of the program applied to a range of inputs: the program is  *)
(* launched on a settings file, the settings dialog is saved, the settings    *)
(* are written and the program is launched again, a request is built and a    *)
(* joke is normalised and notified, one at a time and with no poll thread.    *)

\* the settings a file may hold: any combination of these values
FunSettings ==
    {[DefaultSettings EXCEPT !.frequency = f, !.categories = c, !.safe_mode = sm,
                             !.joke_type = jt, !.language = l] :
        f \in {0, 30},
        c \in {<<"Any">>, <<"Misc">>, <<"Programming", "Misc">>, <<>>},
        sm \in BOOLEAN,
        jt \in {"Any", "single", "twopart"},
        l \in {"en", "de"}}

\* files holding only some of the keys
PartialSettings ==
    {[frequency |-> 5],
     [categories |-> <<"Pun", "Misc">>, safe_mode |-> FALSE],
     [max_history |-> 1, autostart |-> TRUE]}

FunFileDicts == FunSettings \cup PartialSettings

FunFiles == {NoFile, BadFile} \cup {JsonFile(d) : d \in FunFileDicts}

\* a setup of exactly 50 characters, and one of 51
Setup50 == "Why did the programmer quit his job at the bakery?"
Setup51 == "Why did the programmer quit her job at the bakery??"

\* the jokes the API answers with
FunJokes ==
    {SingleJoke.json, TwoPartJoke.json,
     [TwoPartJoke.json EXCEPT !.setup = Setup50],
     [TwoPartJoke.json EXCEPT !.setup = Setup51]}

\* what the user does in the settings dialog before saving: choose specific
\* categories, tick these boxes and set the safe-mode box
FunDialogEdits ==
    {[category_checkboxes |-> {}, safe_mode_cb |-> TRUE],
     [category_checkboxes |-> {"Pun", "Misc"}, safe_mode_cb |-> FALSE]}

FunInit ==
    /\ settings_file \in FunFiles
    /\ tray_visible = TRUE
    /\ NOTIFICATION_SYSTEM \in NotificationSystems
    /\ self = NewJokeNotifier(settings_file)
    /\ threads = [t \in Threads |-> NoThread]
    /\ events = <<>>
    /\ autostart_timer = FALSE
    /\ shown = NoNotification
    /\ n_fetched = 0
    /\ app = "running"

\* what a function application leaves alone
FunFrame == UNCHANGED <<tray_visible, NOTIFICATION_SYSTEM, autostart_timer, n_fetched, app>>

\* open_settings with the poller Stopped: specific categories are chosen
FunDialogSave ==
    /\ \E edit \in FunDialogEdits :
          LET dialog == [SettingsDialog(self.settings) EXCEPT
                            !.category_mode_any = FALSE,
                            !.category_checkboxes = edit.category_checkboxes,
                            !.safe_mode_cb = edit.safe_mode_cb]
              opened == open_settings(self, get_settings(dialog))
          IN  /\ settings_file' = saved_file(opened, settings_file, TRUE)
              /\ self' = [save_settings_to_file(opened, TRUE) EXCEPT
                            !.status_label = "Settings saved successfully"]
    /\ UNCHANGED <<threads, events, shown>>
    /\ FunFrame

\* save_settings_to_file, as closeEvent calls it
FunSave ==
    /\ \E io_ok \in BOOLEAN :
          /\ settings_file' = saved_file(self, settings_file, io_ok)
          /\ self' = save_settings_to_file(self, io_ok)
    /\ UNCHANGED <<threads, events, shown>>
    /\ FunFrame

\* the program is launched again: __init__ loads the settings file
FunRelaunch ==
    /\ self' = NewJokeNotifier(settings_file)
    /\ threads' = [t \in Threads |-> NoThread]
    /\ events' = <<>>
    /\ shown' = NoNotification
    /\ UNCHANGED settings_file
    /\ FunFrame

\* fetch_and_show_joke builds the URL of its request
FunBuildUrl ==
    /\ threads' = [threads EXCEPT ![1] = [NoThread EXCEPT
                        !.pc = "request", !.url = BuildUrl(self.settings)]]
    /\ UNCHANGED <<self, settings_file, events, shown>>
    /\ FunFrame

\* fetch_and_show_joke on a joke: the record emitted and the notification
FunNormalise ==
    /\ threads[1].pc = "request"
    /\ \E joke_data \in FunJokes, raises \in BackendRaises :
          /\ threads' = [threads EXCEPT ![1].pc = "status", ![1].url = "",
                                        ![1].joke_data = joke_data,
                                        ![1].timestamp = ClockStr[1],
                                        ![1].delivered = ~raises]
          /\ events' = <<Signal("add_joke", "", JokeWithMeta(joke_data, ClockStr[1]))>>
          /\ shown' = show_notification(NOTIFICATION_SYSTEM, TRUE, self.settings,
                          notification_title(joke_data),
                          notification_message(joke_data), raises)
    /\ UNCHANGED <<self, settings_file>>
    /\ FunFrame

FunNext ==
    \/ FunDialogSave
    \/ FunSave
    \/ FunRelaunch
    \/ FunBuildUrl
    \/ FunNormalise

FunSpec == FunInit /\ [][FunNext]_vars

-----------------------------------------------------------------------------
(* Claims *)

\* the threads inside fetch_and_show_joke
InCycle(th) == {t \in DOMAIN th : th[t].pc \in CyclePcs}

\* the youngest live thread (0: none)
Newest(th) == Cardinality(Alive(th))

\* the add_joke signals still queued
QueuedJokes == Len(SelectSeq(events, LAMBDA e : e.sig = "add_joke"))

\* C1: at most one poll loop is alive and no two fetch-and-notify cycles are in
\* progress at the same time, whatever start, stop, toggle, autostart-timer and
\* settings-save operations were performed.
C1_OnePollLoop ==
    app = "running" =>
        /\ Cardinality(Alive(threads)) <= 1
        /\ Cardinality(InCycle(threads)) <= 1

\* C2: start invoked while the poller is Running is a no-op: no new poll loop
\* and no additional immediate fetch.  The autostart timer is the path that
\* calls start_notifications without looking at is_running.
C2_StartWhileRunningIsNoOp ==
    [][(self.is_running /\ AutostartTimer) => threads' = threads]_vars

\* C3: a loop that was between two cycles when stop was invoked, with no start
\* since, begins no fetch: it stays in the wait until it returns.
C3_StopInWaitHalts ==
    \A t \in Threads : threads[t].stopped_waiting => threads[t].pc \in WaitPcs

\* C3: a loop stopped during its countdown has left the countdown and is about
\* to return
C3_Witness ==
    /\ app = "running"
    /\ ~self.is_running
    /\ \E t \in Threads : threads[t].stopped_waiting /\ threads[t].pc = "outer"

\* C4: while the poller is Stopped the displayed countdown, cleared by stop,
\* stays empty.
C4_CountdownStaysEmpty ==
    (app = "running" /\ ~self.is_running) => self.next_joke_label = ""

\* C5: once stop has been invoked and before any later start, no joke record is
\* added to the history and no notification is shown by a poll loop.
C5_NothingDeliveredAfterStop ==
    [][(app = "running" /\ ~self.is_running) =>
            ~(DeliverAddJoke \/ \E t \in Threads : ShowNotification(t))]_vars

\* C6: after N > max_history successful fetches the history has exactly
\* max_history records, the most recent ones, newest first.
C6_HistoryBounding ==
    LET N == n_fetched - QueuedJokes
        max_history == self.settings.max_history
    IN  N > max_history =>
            /\ Len(self.last_jokes) = max_history
            /\ \A i \in 1..Len(self.last_jokes) :
                  Ordinal(self.last_jokes[i].time) = N - i + 1

\* C7: the history is never longer than the max_history of the current settings.
C7_HistoryWithinMaxHistory == Len(self.last_jokes) <= self.settings.max_history

\* the status strings of the failing responses
ErrorStatuses == {ErrorStatus(resp) : resp \in {r \in Responses : FetchFails(r)}}

\* thread t's cycle ends in this step without a joke
CycleEndsInError(t) ==
    /\ threads[t].pc = "request"
    /\ threads'[t].pc = "outer"
    /\ \A s \in Threads \ {t} : threads'[s] = threads[s]

\* C8: a cycle that ends in a FetchError emits one status signal, "Error: "
\* followed by the error's message (the API's message for an API-reported
\* error), and neither a joke record nor a notification.
C8_FetchErrorOnlyReports ==
    [][\A t \in Threads : CycleEndsInError(t) =>
            /\ Len(events') = Len(events) + 1
            /\ events'[Len(events')].sig = "update_status"
            /\ events'[Len(events')].message \in ErrorStatuses
            /\ \A r \in Responses :
                  Get(r.json, "error", FALSE) /\ "message" \in DOMAIN r.json
                      => ErrorStatus(r) = "Error: " \o r.json.message
            /\ QueuedJokes' = QueuedJokes
            /\ self'.last_jokes = self.last_jokes
            /\ n_fetched' = n_fetched
            /\ shown' = shown]_vars

\* C8: the status of an API-reported error has reached the UI, with no joke
\* fetched and no notification shown
C8_Witness ==
    /\ self.status_label = "Error: No matching joke found"
    /\ n_fetched = 0
    /\ self.last_jokes = <<>>
    /\ shown = NoNotification

\* C9: saving changed settings while Running leaves the poller Running with a
\* new loop about to make its first fetch and the countdown cleared; saving while
\* Stopped leaves it Stopped with the loops untouched; and while Running the
\* loop started last sends requests built from the current settings and counts
\* down to a deadline computed from them.
C9_SaveRestartsWhenRunning ==
    /\ [][OpenSettings =>
            /\ self.is_running /\ self'.settings # self.settings =>
                  /\ self'.is_running
                  /\ Newest(threads') = Newest(threads) + 1
                  /\ threads'[Newest(threads')].pc = "first"
                  /\ self'.next_joke_label = ""
            /\ ~self.is_running =>
                  /\ ~self'.is_running
                  /\ threads' = threads]_vars
    /\ [](self.is_running /\ Newest(threads) > 0 =>
            LET newest == threads[Newest(threads)]
            IN  /\ newest.pc = "request" => newest.url = BuildUrl(self.settings)
                /\ newest.pc \in {"inner", "check", "countdown"}
                      => newest.next_joke_time = self.settings.frequency)

\* C9: changed settings were saved while Running: a new loop is about to make its
\* first fetch while the loop it replaces still counts down to the old deadline
C9_Witness ==
    /\ self.is_running
    /\ self.status_label = "Settings saved successfully"
    /\ self.next_joke_label = ""
    /\ Newest(threads) = 2
    /\ threads[2].pc = "first"
    /\ threads[1].pc = "inner"
    /\ threads[1].next_joke_time # self.settings.frequency
    /\ settings_file = JsonFile(self.settings)

\* C10: a close request (the window's close button or the tray menu's Exit)
\* leaves the poller Stopped and the settings file holding the current settings.
C10_CloseStopsAndSaves ==
    [][(CloseWindow \/ TrayExit) =>
            /\ ~self'.is_running
            /\ settings_file' = JsonFile(self'.settings)]_vars


\* C11: errors do not break the cadence.  A failing notification backend lets
\* the cycle run on, every cycle, failed or not, is followed by the wait phase,
\* and every wait phase by the next request, unless the poller is stopped or
\* the application exits.
C11_ErrorsKeepCadence ==
    /\ [][\A t \in Threads :
            (ShowNotification(t) /\ shown'.status # "") =>
                threads'[t].pc = "status"]_vars
    /\ \A t \in Threads :
          /\ (threads[t].pc \in CyclePcs) ~>
                (threads[t].pc \in WaitPcs \/ ~self.is_running \/ app = "exited")
          /\ (threads[t].pc \in WaitPcs) ~>
                (threads[t].pc = "request" \/ ~self.is_running \/ app = "exited")

\* C11: after a failed fetch, whose status the UI shows, the only loop is at
\* its next request, with the poller Running throughout (never stopped: the
\* status label "Stopped" would have replaced the countdown's start)
C11_Witness ==
    /\ self.is_running
    /\ self.status_label = "Error: Connection refused"
    /\ self.next_joke_label = CountdownText
    /\ Cardinality(Alive(threads)) = 1
    /\ threads[1].pc = "request"
    /\ n_fetched = 0

\* thread t alone moves, from position from to position to
Moves(t, from, to) ==
    /\ threads[t].pc = from
    /\ threads'[t].pc = to
    /\ \A s \in Threads \ {t} : threads'[s] = threads[s]

\* C12: a loop that was in its wait phase at a stop, with no start since,
\* begins no further countdown tick (it does not pass the test at the head of
\* the countdown loop again) and ends, unless the application exits first.
C12_StopTakesEffectWithinATick ==
    /\ [][\A t \in Threads :
            threads[t].stopped_waiting => ~Moves(t, "inner", "check")]_vars
    /\ \A t \in Threads :
          threads[t].stopped_waiting ~>
              (~threads[t].stopped_waiting \/ app = "exited")

\* C12: the poller was stopped after its loop had completed a cycle, and the
\* loop has ended
C12_Witness ==
    /\ app = "running"
    /\ ~self.is_running
    /\ self.status_label = "Stopped"
    /\ Alive(threads) = {}
    /\ events = <<>>
    /\ n_fetched = 1
    /\ Len(self.last_jokes) = 1

ExplicitCategories(settings) ==
    settings.categories # <<"Any">> /\ settings.categories # <<>>

\* the names of a list of one or two categories, separated by a comma
CommaJoined(categories) ==
    IF Len(categories) = 1 THEN categories[1]
    ELSE categories[1] \o "," \o categories[2]

\* the request up to the language parameter, as C14 lays it out
LayoutUpToType(settings) ==
    "https://v2.jokeapi.dev/joke/" \o CommaJoined(settings.categories)
        \o "?blacklistFlags=religious,racist,sexist,explicit"
        \o (IF settings.safe_mode THEN "&safe-mode" ELSE "")
        \o (IF settings.joke_type = "Any" THEN ""
            ELSE "&type=" \o settings.joke_type)

\* C14 as stated: the request is the base endpoint, the categories joined by
\* commas in their stored order, the fixed blacklist flags, the safe-mode flag
\* exactly when safe_mode is true, a type filter exactly when joke_type is not
\* Any, and a language parameter carrying the configured language.
C14_RequestLayout ==
    [][(FunBuildUrl /\ ExplicitCategories(self.settings)) =>
            threads'[1].url = LayoutUpToType(self.settings)
                                \o "&lang=" \o self.settings.language]_vars

\* C14 amended: as C14, with the language parameter exactly when the language
\* is not en.
C14_RequestLayoutAmended ==
    [][(FunBuildUrl /\ ExplicitCategories(self.settings)) =>
            threads'[1].url = LayoutUpToType(self.settings)
                                \o (IF self.settings.language = "en" THEN ""
                                    ELSE "&lang=" \o self.settings.language)]_vars

C14_Witness ==
    /\ threads[1].pc = "request"
    /\ self.settings.categories = <<"Programming", "Misc">>
    /\ ~self.settings.safe_mode
    /\ threads[1].url = "https://v2.jokeapi.dev/joke/Programming,Misc"
            \o "?blacklistFlags=religious,racist,sexist,explicit&type=twopart&lang=de"

\* C15: for a single joke X the record's text and the notification's body are
\* X and the title is the generic label; for a two-part joke S, D the text is
\* S, a blank line, D, the body is D, and the title is S when S has at most 50
\* characters and the generic label otherwise.
C15_Normalisation ==
    threads[1].pc = "status" /\ threads[1].joke_data # EmptyDict =>
        LET joke_data == threads[1].joke_data
            record == events[1].joke
        IN  IF joke_data.type = "single"
            THEN /\ record.text = joke_data.joke
                 /\ shown.message = joke_data.joke
                 /\ shown.title = "Joke Time!"
            ELSE /\ record.text = joke_data.setup \o "\n\n" \o joke_data.delivery
                 /\ shown.message = joke_data.delivery
                 /\ shown.title = IF Len(joke_data.setup) <= 50
                                  THEN joke_data.setup ELSE "Joke Time!"

\* C15: a two-part joke whose setup has exactly 50 characters is titled by it
C15_Witness ==
    /\ threads[1].pc = "status"
    /\ threads[1].joke_data.type = "twopart"
    /\ Len(threads[1].joke_data.setup) = 50
    /\ shown.title = threads[1].joke_data.setup
    /\ shown.message = "D"
    /\ events[1].joke.text = Setup50 \o "\n\nD"

\* C16: when the settings file is what saving the current settings wrote, the
\* settings loaded at the next launch equal them on every key.
C16_SettingsRoundTrip ==
    [][(FunRelaunch /\ settings_file = JsonFile(self.settings)) =>
            self'.settings = self.settings]_vars

\* C16: settings only a dialog save produces have been written and loaded
C16_Witness ==
    /\ self.status_label = "Ready to start"
    /\ self.settings.categories = <<"Misc", "Pun">>
    /\ ~self.settings.safe_mode
    /\ settings_file = JsonFile(self.settings)

\* C17: a launch constructs the object whatever the file: with a missing or
\* unparseable file the settings are the defaults, with a file of some keys
\* those keys override the defaults and the others keep them, and a failure
\* to load shows only in the status label.
C17_LoadNeverRaises ==
    [][FunRelaunch =>
            /\ self'.status_label =
                    IF settings_file = BadFile
                    THEN "Error loading settings: Expecting value"
                    ELSE "Ready to start"
            /\ settings_file \in {NoFile, BadFile} => self'.settings = DefaultSettings
            /\ \A d \in FunFileDicts :
                  settings_file = JsonFile(d) =>
                      /\ DOMAIN self'.settings = DOMAIN DefaultSettings
                      /\ \A k \in DOMAIN DefaultSettings :
                            self'.settings[k] =
                                IF k \in DOMAIN d THEN d[k] ELSE DefaultSettings[k]]_vars

\* C17: a file of two keys has been loaded over the defaults
C17_Witness ==
    /\ settings_file = JsonFile([categories |-> <<"Pun", "Misc">>, safe_mode |-> FALSE])
    /\ self.settings.categories = <<"Pun", "Misc">>
    /\ ~self.settings.safe_mode
    /\ self.settings.frequency = 30
    /\ self.settings.max_history = 15
    /\ threads[1].pc = "none"

\* C18: the current settings have at least one category and a frequency of at
\* least 1.
C18_SettingsInvariant ==
    /\ Len(self.settings.categories) >= 1
    /\ self.settings.frequency >= 1

\* the selected backend displayed the notification: QSystemTrayIcon.showMessage
\* displays nothing unless the tray icon is visible
PrimaryDelivered ==
    /\ shown.backend \in NotificationSystems
    /\ shown.backend = "qt" => tray_visible

\* C19: every call of show_notification ends in a delivery by the selected
\* backend or in a scheduled fallback dialog, and a backend that fails is
\* reported: the call returns False and the dialog is scheduled.
C19_NotifyDeliversOrFallsBack ==
    shown # NoNotification =>
        /\ PrimaryDelivered \/ shown.dialog
        /\ shown.status # "" => (shown.dialog /\ ~shown.returns)

\* C20: no step of a poll thread changes what the UI thread owns: the window's
\* fields and what the tray icon and the dialogs display.
C20_ThreadsLeaveUiStateAlone ==
    [][(\E t \in Threads : ThreadStep(t)) => UNCHANGED <<self, shown>>]_vars

\* C21: a cycle emits the status "Last joke sent successfully at ..." only
\* when its own call of show_notification reported a delivery.
C21_SuccessOnlyWhenDelivered ==
    [][\A t \in Threads : EmitSuccess(t) => threads[t].delivered]_vars

=============================================================================
